---- MODULE Spec2Model ----
(***************************************************************************)
(* jaraco.versioning: version arithmetic (SummableVersion) and the         *)
(* increment policy (Versioned) that infers the current and the next       *)
(* version of a repository from its tags.                                  *)
(*                                                                         *)
(* A Python str is modelled as a sequence of one-character strings, so     *)
(* that parsing a tag and formatting a version are computed, not assumed.  *)
(* packaging.version.Version is modelled by the record                     *)
(*   [epoch, release, pre, post, dev]                                      *)
(* where pre is <<>> (None) or <<letter, n>>, and post and dev are <<>>    *)
(* (None) or <<n>>.  Local version labels ("+abc") and the alternative     *)
(* spellings PEP 440 normalises (alpha, "-", "_", a leading "v", upper     *)
(* case) are left out of the grammar.                                      *)
(***************************************************************************)
EXTENDS Integers, Sequences, FiniteSets, TLC

VARIABLES
    workTags,     \* get_tags(): tags of the working copy (set of str)
    parentTags,   \* get_parent_tags('tip'): tags of the parent revision
    repoTags,     \* get_repo_tags(): every tag of the repository
    modified,     \* is_modified()
    self,         \* the SummableVersion object reset_less_significant mutates
    before,       \* self as it was before the latest reset_less_significant
    call,         \* the latest call: its name and arguments
    out,          \* what the latest call returned or raised
    consulted     \* whether the latest call read get_parent_tags

vars == <<workTags, parentTags, repoTags, modified, self, before, call, out, consulted>>

----------------------------------------------------------------------------
(* Bounds of the model *)

MaxSeg == 1
MaxLen == 3
MaxTags == 2
MaxReleases == 2

----------------------------------------------------------------------------
(* Python values *)

PyNone == [kind |-> "none"]
PyStr(s) == [kind |-> "str", s |-> s]
PyVer(v) == [kind |-> "version", v |-> v]
Raised(e) == [kind |-> "error", exc |-> e]

IsVer(x) == x.kind = "version"
IsErr(x) == x.kind = "error"

----------------------------------------------------------------------------
(* str <-> int *)

Digits == <<"0", "1", "2", "3", "4", "5", "6", "7", "8", "9">>

IsDigit(c) == \E i \in 1..10 : Digits[i] = c

DigitVal(c) == (CHOOSE i \in 1..10 : Digits[i] = c) - 1

RECURSIVE StrToInt(_)
StrToInt(s) ==
    IF Len(s) = 0 THEN 0
    ELSE 10 * StrToInt(SubSeq(s, 1, Len(s) - 1)) + DigitVal(s[Len(s)])

RECURSIVE IntToStr(_)
IntToStr(n) ==
    IF n < 10 THEN <<Digits[n + 1]>>
    ELSE IntToStr(n \div 10) \o <<Digits[(n % 10) + 1]>>

\* the first position at or after i that holds no digit
RECURSIVE DigitsEnd(_, _)
DigitsEnd(s, i) ==
    IF i <= Len(s) /\ IsDigit(s[i]) THEN DigitsEnd(s, i + 1) ELSE i

HasPrefix(s, i, p) ==
    /\ i + Len(p) - 1 <= Len(s)
    /\ SubSeq(s, i, i + Len(p) - 1) = p

----------------------------------------------------------------------------
(* packaging.version.Version: parsing *)

\* N ("." N)* from position i: [rel, next]; rel = <<>> when no number is there
RECURSIVE ReadRelease(_, _)
ReadRelease(s, i) ==
    LET j == DigitsEnd(s, i) IN
    IF j = i THEN [rel |-> <<>>, next |-> i]
    ELSE LET n == StrToInt(SubSeq(s, i, j - 1)) IN
         IF j + 1 <= Len(s) /\ s[j] = "." /\ IsDigit(s[j + 1])
         THEN LET rest == ReadRelease(s, j + 1) IN
              [rel |-> <<n>> \o rest.rel, next |-> rest.next]
         ELSE [rel |-> <<n>>, next |-> j]

\* an optional number from position i (absent: 0)
ReadNum(s, i) ==
    LET j == DigitsEnd(s, i) IN
    [n |-> StrToInt(SubSeq(s, i, j - 1)), next |-> j]

PreLetters == << <<"r", "c">>, <<"a">>, <<"b">> >>

ReadPre(s, i) ==
    IF \E k \in 1..Len(PreLetters) : HasPrefix(s, i, PreLetters[k])
    THEN LET k == CHOOSE k \in 1..Len(PreLetters) : HasPrefix(s, i, PreLetters[k])
             num == ReadNum(s, i + Len(PreLetters[k]))
         IN [val |-> <<PreLetters[k], num.n>>, next |-> num.next]
    ELSE [val |-> <<>>, next |-> i]

ReadTagged(s, i, word) ==
    IF HasPrefix(s, i, word)
    THEN LET num == ReadNum(s, i + Len(word)) IN [val |-> <<num.n>>, next |-> num.next]
    ELSE [val |-> <<>>, next |-> i]

DotPost == <<".", "p", "o", "s", "t">>
DotDev == <<".", "d", "e", "v">>

\* Version(s): PyVer(v), or Raised("InvalidVersion") (a ValueError)
ParseVersion(s) ==
    LET e == DigitsEnd(s, 1)
        hasEpoch == e > 1 /\ e <= Len(s) /\ s[e] = "!"
        epoch == IF hasEpoch THEN StrToInt(SubSeq(s, 1, e - 1)) ELSE 0
        r == ReadRelease(s, IF hasEpoch THEN e + 1 ELSE 1)
        pre == ReadPre(s, r.next)
        post == ReadTagged(s, pre.next, DotPost)
        dev == ReadTagged(s, post.next, DotDev)
    IN IF r.rel # <<>> /\ dev.next = Len(s) + 1
       THEN PyVer([epoch |-> epoch, release |-> r.rel, pre |-> pre.val,
                   post |-> post.val, dev |-> dev.val])
       ELSE Raised("InvalidVersion")

----------------------------------------------------------------------------
(* packaging.version.Version: formatting, ordering, is_prerelease *)

RECURSIVE JoinDots(_)
JoinDots(rel) ==
    IF Len(rel) = 1 THEN IntToStr(rel[1])
    ELSE IntToStr(rel[1]) \o <<".">> \o JoinDots(Tail(rel))

\* str(version)
VersionStr(v) ==
    (IF v.epoch # 0 THEN IntToStr(v.epoch) \o <<"!">> ELSE <<>>)
    \o JoinDots(v.release)
    \o (IF v.pre # <<>> THEN v.pre[1] \o IntToStr(v.pre[2]) ELSE <<>>)
    \o (IF v.post # <<>> THEN DotPost \o IntToStr(v.post[1]) ELSE <<>>)
    \o (IF v.dev # <<>> THEN DotDev \o IntToStr(v.dev[1]) ELSE <<>>)

\* is_prerelease with a fault: a dev release is not seen as a pre-release
is_prerelease_pre_only(v) == v.pre # <<>>

is_prerelease(v) == v.dev # <<>> \/ v.pre # <<>>

RECURSIVE StripZeros(_)
StripZeros(rel) ==
    IF Len(rel) > 0 /\ rel[Len(rel)] = 0
    THEN StripZeros(SubSeq(rel, 1, Len(rel) - 1))
    ELSE rel

\* comparison of two tuples of integers, as Python compares tuples: -1, 0, 1
RECURSIVE CmpTuple(_, _)
CmpTuple(x, y) ==
    IF Len(x) = 0 /\ Len(y) = 0 THEN 0
    ELSE IF Len(x) = 0 THEN -1
    ELSE IF Len(y) = 0 THEN 1
    ELSE IF x[1] < y[1] THEN -1
    ELSE IF x[1] > y[1] THEN 1
    ELSE CmpTuple(Tail(x), Tail(y))

PreRank(letter) ==
    IF letter = <<"a">> THEN 1 ELSE IF letter = <<"b">> THEN 2 ELSE 3

\* the pre, post and dev parts of the comparison key, with the infinities
\* the key puts in place of a missing part
PreKey(v) ==
    IF v.pre = <<>> /\ v.post = <<>> /\ v.dev # <<>> THEN <<0, 0>>
    ELSE IF v.pre = <<>> THEN <<4, 0>>
    ELSE <<PreRank(v.pre[1]), v.pre[2]>>

PostKey(v) == IF v.post = <<>> THEN <<0, 0>> ELSE <<1, v.post[1]>>

DevKey(v) == IF v.dev = <<>> THEN <<1, 0>> ELSE <<0, v.dev[1]>>

\* a < b, a == b on versions
VersionCmp(a, b) ==
    IF a.epoch # b.epoch THEN (IF a.epoch < b.epoch THEN -1 ELSE 1)
    ELSE LET c == CmpTuple(StripZeros(a.release), StripZeros(b.release)) IN
         IF c # 0 THEN c
         ELSE CmpTuple(PreKey(a) \o PostKey(a) \o DevKey(a),
                       PreKey(b) \o PostKey(b) \o DevKey(b))

VersionLess(a, b) == VersionCmp(a, b) = -1
VersionEq(a, b) == VersionCmp(a, b) = 0

----------------------------------------------------------------------------
(* find, rfind *)

PyInt(n) == [kind |-> "int", n |-> n]

RECURSIVE Reversed(_)
Reversed(items) ==
    IF Len(items) = 0 THEN <<>>
    ELSE Reversed(Tail(items)) \o <<items[1]>>

\* find(pred, items), given pred(item) for each item in turn: the index
\* (from 0) of the first item for which pred holds, or None
find(tested) ==
    IF \E i \in 1..Len(tested) : tested[i]
    THEN PyInt((CHOOSE i \in 1..Len(tested) :
                   /\ tested[i]
                   /\ \A k \in 1..(i - 1) : ~tested[k]) - 1)
    ELSE PyNone

\* rfind(pred, items): -find(pred, reversed(items)) - 1; unary minus on
\* None is a TypeError
rfind(tested) ==
    LET f == find(Reversed(tested)) IN
    IF f = PyNone THEN Raised("TypeError") ELSE PyInt(-f.n - 1)

----------------------------------------------------------------------------
(* SummableVersion *)

Max(a, b) == IF a >= b THEN a ELSE b
Min(a, b) == IF a <= b THEN a ELSE b

\* the segment at position i (from 1) of a release padded with zeros
Seg(rel, i) == IF i <= Len(rel) THEN rel[i] ELSE 0

Zeros(n) == [i \in 1..n |-> 0]

\* ZipLongestAdd with a fault: zip over the left operand's length only
ZipLeftAdd(a, b) == [i \in 1..Len(a) |-> Seg(a, i) + Seg(b, i)]

\* itertools.zip_longest(a, b, fillvalue=0) under starmap(operator.add)
ZipLongestAdd(a, b) == [i \in 1..Max(Len(a), Len(b)) |-> Seg(a, i) + Seg(b, i)]

\* SummableVersion(str(v))
Reparse(v) == ParseVersion(VersionStr(v)).v

\* SummableVersion('1.0')
OneDotZero == ParseVersion(<<"1", ".", "0">>).v

\* self + other
__add__(me, other) ==
    LET result == [OneDotZero EXCEPT !.release = ZipLongestAdd(me.release, other.release)]
    IN Reparse(result)

nonzero(x) == x # 0

\* release[:n], for n >= 0
Slice(rel, n) == SubSeq(rel, 1, Min(n, Len(rel)))

\* self.reset_less_significant(significant_version): the new value of self,
\* or the exception raised before self is touched
reset_less_significant(me, significant_version) ==
    LET version_len == Len(significant_version.release)
        release == significant_version.release
        found == rfind([i \in 1..Len(release) |-> nonzero(release[i])])
    IN IF IsErr(found) THEN found
       ELSE LET significant_pos == version_len + found.n + 1
                new_release == Slice(me.release, significant_pos)
                               \o Zeros(version_len - significant_pos)
            IN PyVer(Reparse([me EXCEPT !.release = new_release]))

----------------------------------------------------------------------------
(* Versioned.infer_next_version *)

Major == <<"m", "a", "j", "o", "r">>
Minor == <<"m", "i", "n", "o", "r">>
Patch == <<"p", "a", "t", "c", "h">>

\* semantic_increment with a fault: the table is not looked up
semantic_increment_unresolved(increment) == increment

\* semantic_increment with a fault: minor and patch exchanged
semantic_increment_swapped(increment) ==
    IF increment = Major THEN <<"1">>
    ELSE IF increment = Patch THEN <<"0", ".", "1">>
    ELSE IF increment = Minor THEN <<"0", ".", "0", ".", "1">>
    ELSE increment

\* Versioned.semantic_increment.get(increment, increment)
semantic_increment(increment) ==
    IF increment = Major THEN <<"1">>
    ELSE IF increment = Minor THEN <<"0", ".", "1">>
    ELSE IF increment = Patch THEN <<"0", ".", "0", ".", "1">>
    ELSE increment

\* str(x) for a str or a Version
PyStrOf(x) == IF x.kind = "str" THEN x.s ELSE VersionStr(x.v)

\* last_version: None, a Version or a str; increment: a str
infer_next_version(last_version, increment) ==
    LET inc == semantic_increment(increment) IN
    IF last_version = PyNone THEN PyStr(inc)
    ELSE LET last == ParseVersion(PyStrOf(last_version)) IN
         IF IsErr(last) THEN last
         ELSE IF is_prerelease(last.v)
         THEN PyStr(VersionStr([last.v EXCEPT !.pre = <<>>, !.dev = <<>>]))
         ELSE LET incv == ParseVersion(inc) IN
              IF IsErr(incv) THEN incv
              ELSE reset_less_significant(__add__(last.v, incv.v), incv.v)

----------------------------------------------------------------------------
(* Versioned *)

Tip == <<"t", "i", "p">>
DotDev0 == <<".", "d", "e", "v", "0">>

\* DefaultIncrement with a fault: minor
DefaultIncrementMinor == Minor

\* Versioned.increment
DefaultIncrement == Patch

\* __versions_from_tags: the tags that parse, as Versions
versions_from_tags(tags) ==
    {ParseVersion(t).v : t \in {u \in tags : IsVer(ParseVersion(u))}}

\* best_version with a fault: the first version met, not the greatest
first_version(versions) ==
    IF versions = {} THEN {PyNone} ELSE {PyVer(v) : v \in versions}

\* __best_version: what max(versions) can return.  The tags come as a set,
\* whose iteration order is arbitrary, and max keeps the first of several
\* equal maxima: any of them can be the one returned.
best_version(versions) ==
    IF versions = {} THEN {PyNone}
    ELSE {PyVer(v) : v \in {w \in versions : \A x \in versions : ~VersionLess(w, x)}}

get_valid_versions(repo) == versions_from_tags(repo)

\* defers_to_parent with a fault: the modification state is not asked
defers_on_tip(work, isModified) == Tip \in work

\* whether get_tagged_version reads get_parent_tags
defers_to_parent(work, isModified) == Tip \in work /\ ~isModified

get_tagged_version(work, parent, isModified) ==
    LET tags == IF defers_to_parent(work, isModified) THEN parent ELSE work
    IN best_version(versions_from_tags(tags))

get_latest_version(repo) == best_version(get_valid_versions(repo))

\* increment or self.increment: None and '' are both false
increment_or_default(increment) ==
    IF increment = PyNone \/ increment.s = <<>> THEN DefaultIncrement ELSE increment.s

get_next_version(repo, increment) ==
    {infer_next_version(latest, increment_or_default(increment)) :
        latest \in get_latest_version(repo)}

get_current_version(work, parent, isModified, repo, increment) ==
    UNION {IF tagged # PyNone
           THEN {PyStr(VersionStr(tagged.v))}
           ELSE {IF IsErr(next) THEN next ELSE PyStr(PyStrOf(next) \o DotDev0) :
                    next \in get_next_version(repo, increment)} :
           tagged \in get_tagged_version(work, parent, isModified)}

----------------------------------------------------------------------------
(* Inputs *)

Bogus == <<"b", "o", "g", "u", "s">>
Foo == <<"f", "o", "o">>
Bar == <<"b", "a", "r">>

\* every release of at most n segments drawn from vals
Releases(vals, n) == UNION {[1..k -> vals] : k \in 1..n}

Plain(rel) == [epoch |-> 0, release |-> rel, pre |-> <<>>, post |-> <<>>, dev |-> <<>>]

\* 1.0, 1.0a1, 1.0.dev0, 1.0.post1, 1!1.0: the parts a version can carry
Marks ==
    {Plain(<<1, 0>>),
     [Plain(<<1, 0>>) EXCEPT !.pre = <<<<"a">>, 1>>],
     [Plain(<<1, 0>>) EXCEPT !.dev = <<0>>],
     [Plain(<<1, 0>>) EXCEPT !.post = <<1>>],
     [Plain(<<1, 0>>) EXCEPT !.epoch = 1]}

IncSegs == 0..MaxSeg
LastSegs == (0..MaxSeg) \cup {9}

\* the versions infer_next_version is given as last_version
LastVersions == {[m EXCEPT !.release = r] : m \in Marks, r \in Releases(LastSegs, MaxLen)}

\* the increments: every dotted one, the semantic names, a malformed one
Increments ==
    {VersionStr(Plain(r)) : r \in Releases(IncSegs, MaxLen)} \cup {Major, Minor, Patch, Bogus}

\* the versions a SummableVersion is constructed from
SelfVersions ==
    {[m EXCEPT !.release = r] :
        m \in {x \in Marks : x.post = <<>> /\ x.dev = <<>>}, r \in Releases(IncSegs, MaxLen)}

\* the right operand of +, the argument of reset_less_significant
OtherVersions ==
    {Plain(r) : r \in Releases(IncSegs, MaxLen)}
    \cup {[Plain(<<0, 1>>) EXCEPT !.dev = <<0>>], [Plain(<<1>>) EXCEPT !.epoch = 1]}

WorkUniverse ==
    {Tip, Foo, <<"1", ".", "0">>, <<"1", ".", "0", "a", "1">>, <<"1", ".", "0", ".", "0">>,
     <<"0", ".", "1", "0">>, <<"0", ".", "9">>}

ParentUniverse == {Bar, <<"2", ".", "0">>}

RepoUniverse == {Foo, Bar, <<"1", ".", "0">>, <<"3", ".", "1", "a", "1">>}

ReleaseUniverse ==
    {Foo, <<"1", ".", "0">>, <<"0", ".", "9">>, <<"3", ".", "1", "a", "1">>,
     <<"1", ".", "0", ".", "p", "o", "s", "t", "1">>, <<"1", "!", "1", ".", "0">>}

TagSets(universe) == {S \in SUBSET universe : Cardinality(S) <= MaxTags}

\* the increment argument of get_next_version and get_current_version
IncrementArgs == {PyNone} \cup {PyStr(s) : s \in {Major, Minor, Patch, Bogus}}

----------------------------------------------------------------------------
(* The increment policy over a repository.  The queries read the repository *)
(* and change nothing of it, so a query made after another one reaches the  *)
(* state it reaches when made first: each is made on a fresh snapshot.      *)

Init ==
    /\ workTags \in TagSets(WorkUniverse)
    /\ parentTags \in SUBSET ParentUniverse
    /\ repoTags \in TagSets(RepoUniverse)
    /\ modified \in BOOLEAN
    /\ self = PyNone
    /\ before = PyNone
    /\ call = [op |-> "init"]
    /\ out = PyNone
    /\ consulted = FALSE

GetTaggedVersion ==
    /\ call.op = "init"
    /\ \E r \in get_tagged_version(workTags, parentTags, modified) : out' = r
    /\ call' = [op |-> "get_tagged_version"]
    /\ consulted' = defers_to_parent(workTags, modified)
    /\ UNCHANGED <<workTags, parentTags, repoTags, modified, self, before>>

GetLatestVersion ==
    /\ call.op = "init"
    /\ \E r \in get_latest_version(repoTags) : out' = r
    /\ call' = [op |-> "get_latest_version"]
    /\ consulted' = FALSE
    /\ UNCHANGED <<workTags, parentTags, repoTags, modified, self, before>>

GetNextVersion ==
    /\ call.op = "init"
    /\ \E increment \in IncrementArgs :
        /\ \E r \in get_next_version(repoTags, increment) : out' = r
        /\ call' = [op |-> "get_next_version", increment |-> increment]
        /\ consulted' = FALSE
        /\ UNCHANGED <<workTags, parentTags, repoTags, modified, self, before>>

GetCurrentVersion ==
    /\ call.op = "init"
    /\ \E increment \in IncrementArgs :
        /\ \E r \in get_current_version(workTags, parentTags, modified, repoTags, increment) :
              out' = r
        /\ call' = [op |-> "get_current_version", increment |-> increment]
        /\ consulted' = defers_to_parent(workTags, modified)
        /\ UNCHANGED <<workTags, parentTags, repoTags, modified, self, before>>

Next ==
    \/ GetTaggedVersion
    \/ GetLatestVersion
    \/ GetNextVersion
    \/ GetCurrentVersion

Spec == Init /\ [][Next]_vars

----------------------------------------------------------------------------
(* Releasing: the version get_next_version returns is tagged *)

InitRelease ==
    /\ workTags = {}
    /\ parentTags = {}
    /\ repoTags \in TagSets(ReleaseUniverse)
    /\ modified = FALSE
    /\ self = PyNone
    /\ before = PyNone
    /\ call = [op |-> "init"]
    /\ out = PyNone
    /\ consulted = FALSE

Release ==
    \E increment \in {PyStr(s) : s \in {Major, Minor, Patch, <<"0", ".", "1">>, <<"1", ".", "0">>}} :
    \E latest \in get_latest_version(repoTags) :
        LET next == infer_next_version(latest, increment_or_default(increment)) IN
        /\ Cardinality(repoTags) < MaxTags + MaxReleases
        /\ ~IsErr(next)
        /\ repoTags' = repoTags \cup {PyStrOf(next)}
        /\ call' = [op |-> "release", increment |-> increment, latest |-> latest]
        /\ out' = next
        /\ UNCHANGED <<workTags, parentTags, modified, self, before, consulted>>

NextRelease == Release

SpecRelease == InitRelease /\ [][NextRelease]_vars

----------------------------------------------------------------------------
(* Version arithmetic *)

InitArith ==
    /\ workTags = {}
    /\ parentTags = {}
    /\ repoTags = {}
    /\ modified = FALSE
    /\ self = PyNone
    /\ before = PyNone
    /\ call = [op |-> "init"]
    /\ out = PyNone
    /\ consulted = FALSE

\* SummableVersion(str(v))
New ==
    /\ call.op = "init"
    /\ \E v \in SelfVersions :
        /\ self' = ParseVersion(VersionStr(v))
        /\ before' = PyNone
        /\ call' = [op |-> "SummableVersion"]
        /\ out' = PyNone
        /\ UNCHANGED <<workTags, parentTags, repoTags, modified, consulted>>

\* self + other
Add ==
    /\ call.op = "SummableVersion"
    /\ \E other \in OtherVersions :
        /\ out' = PyVer(__add__(self.v, other))
        /\ call' = [op |-> "__add__", other |-> other]
        /\ UNCHANGED <<workTags, parentTags, repoTags, modified, self, before, consulted>>

\* self.reset_less_significant(significant_version), on a new object and
\* then once more with the same argument (call.again)
ResetLessSignificant ==
    /\ \/ call.op = "SummableVersion"
       \/ call.op = "reset_less_significant" /\ ~call.again /\ ~IsErr(out)
    /\ \E significant_version \in
            IF call.op = "reset_less_significant"
            THEN {call.significant_version} ELSE OtherVersions :
        LET r == reset_less_significant(self.v, significant_version) IN
        /\ self' = IF IsErr(r) THEN self ELSE r
        /\ before' = self
        /\ out' = IF IsErr(r) THEN r ELSE PyNone
        /\ call' = [op |-> "reset_less_significant",
                    significant_version |-> significant_version,
                    again |-> call.op = "reset_less_significant"]
        /\ UNCHANGED <<workTags, parentTags, repoTags, modified, consulted>>

\* Versioned.infer_next_version(last_version, increment): a static method,
\* which reads no object
InferNextVersion ==
    /\ call.op = "init"
    /\ \E last_version \in {PyNone} \cup {PyVer(v) : v \in LastVersions} :
      \E increment \in Increments :
        /\ out' = infer_next_version(last_version, increment)
        /\ call' = [op |-> "infer_next_version",
                    last_version |-> last_version, increment |-> increment]
        /\ UNCHANGED <<workTags, parentTags, repoTags, modified, self, before, consulted>>

NextArith ==
    \/ New
    \/ Add
    \/ ResetLessSignificant
    \/ InferNextVersion

SpecArith == InitArith /\ [][NextArith]_vars

----------------------------------------------------------------------------
(* What the claims speak of, stated apart from the operators above *)

\* the versions among a set of tags
Parseable(tags) == {ParseVersion(t).v : t \in {u \in tags : ParseVersion(u).kind = "version"}}

\* a comes before b in numeric segment-wise order, the shorter zero-padded
SegmentsLess(a, b) ==
    \E i \in 1..Max(Len(a), Len(b)) :
        /\ Seg(a, i) < Seg(b, i)
        /\ \A k \in 1..(i - 1) : Seg(a, k) = Seg(b, k)

SegmentsEq(a, b) == \A i \in 1..Max(Len(a), Len(b)) : Seg(a, i) = Seg(b, i)

HasMarker(v) == v.pre # <<>> \/ v.dev # <<>>

\* v is a greatest version of vs: no release is greater, and of the
\* versions of its release none is a release when v is a pre-release
IsGreatest(v, vs) ==
    /\ v \in vs
    /\ \A w \in vs :
        /\ ~SegmentsLess(v.release, w.release)
        /\ SegmentsEq(v.release, w.release) /\ HasMarker(v) => HasMarker(w)

\* the result a maximum over the tags may be: None exactly when none parses
IsMaxOfTags(r, tags) ==
    IF Parseable(tags) = {} THEN r = PyNone
    ELSE r.kind = "version" /\ IsGreatest(r.v, Parseable(tags))

\* C1: without 'tip' among the working-copy tags, get_tagged_version returns
\* a greatest (numeric, zero-padded, pre-release below release) of the tags
\* that parse, raises nothing, and returns None exactly when no tag parses.
C1_TaggedIsMaximum ==
    (call.op = "get_tagged_version" /\ Tip \notin workTags) =>
        /\ out.kind # "error"
        /\ IsMaxOfTags(out, workTags)
        /\ ({<<"0", ".", "1", "0">>, <<"0", ".", "9">>} \subseteq workTags
              /\ <<"1", ".", "0">> \notin workTags /\ <<"1", ".", "0", ".", "0">> \notin workTags
              /\ <<"1", ".", "0", "a", "1">> \notin workTags)
            => out = PyVer(Plain(<<0, 10>>))

C1_Witness ==
    /\ call.op = "get_tagged_version"
    /\ workTags = {<<"0", ".", "1", "0">>, <<"0", ".", "9">>}
    /\ out = PyVer(Plain(<<0, 10>>))

\* C2: get_tagged_version reads the parent's tags exactly when 'tip' is a
\* working-copy tag and the working copy is not modified; the result is then
\* the greatest version of the parent's tags alone, and otherwise that of
\* the working copy's tags alone.
C2_DefersToParent ==
    call.op = "get_tagged_version" =>
        /\ consulted <=> (Tip \in workTags /\ ~modified)
        /\ consulted => IsMaxOfTags(out, parentTags)
        /\ ~consulted => IsMaxOfTags(out, workTags)

C2_Witness ==
    /\ call.op = "get_tagged_version"
    /\ workTags = {Tip, <<"1", ".", "0">>}
    /\ parentTags = {Bar, <<"2", ".", "0">>}
    /\ consulted
    /\ out = PyVer(Plain(<<2, 0>>))

\* the increment get_next_version works with: 'patch' when none is given
GivenIncrement == IF call.increment = PyNone THEN Patch ELSE call.increment.s

\* what get_next_version is to return on the repository's tags
IsNextVersion(r) ==
    \E latest \in {PyNone} \cup {PyVer(v) : v \in Parseable(repoTags)} :
        /\ IsMaxOfTags(latest, repoTags)
        /\ r = infer_next_version(latest, GivenIncrement)

\* C5: get_current_version returns the string of the tagged version when
\* there is one, and otherwise str(get_next_version(increment)) + '.dev0';
\* get_next_version infers from the greatest version of all repository tags
\* and the increment, 'patch' by default.
C5_CurrentVersion ==
    /\ call.op = "get_next_version" =>
        /\ IsNextVersion(out)
        /\ (Parseable(repoTags) = {} /\ call.increment = PyNone)
              => out = PyStr(<<"0", ".", "0", ".", "1">>)
        /\ (Parseable(repoTags) = {Plain(<<1, 0>>)} /\ call.increment = PyNone)
              => out = PyVer(Plain(<<1, 0, 1>>))
    /\ call.op = "get_current_version" =>
        LET tags == IF Tip \in workTags /\ ~modified THEN parentTags ELSE workTags IN
        IF Parseable(tags) # {}
        THEN /\ out.kind = "str"
             /\ \E v \in Parseable(tags) :
                   IsGreatest(v, Parseable(tags)) /\ out.s = VersionStr(v)
        ELSE \E next \in {infer_next_version(l, GivenIncrement) :
                             l \in {PyNone} \cup {PyVer(v) : v \in Parseable(repoTags)}} :
                /\ IsNextVersion(next)
                /\ IF next.kind = "error" THEN out = next
                   ELSE out = PyStr(PyStrOf(next) \o <<".", "d", "e", "v", "0">>)

C5_Witness ==
    /\ call.op = "get_current_version"
    /\ call.increment = PyNone
    /\ workTags = {}
    /\ repoTags = {Foo, <<"1", ".", "0">>}
    /\ out = PyStr(<<"1", ".", "0", ".", "1", ".", "d", "e", "v", "0">>)

----------------------------------------------------------------------------
(* infer_next_version *)

\* the release segments an increment stands for: major, minor and patch are
\* 1, 0.1 and 0.0.1; <<>> when the increment is no version
IncrementRelease(increment) ==
    IF increment = Major THEN <<1>>
    ELSE IF increment = Minor THEN <<0, 1>>
    ELSE IF increment = Patch THEN <<0, 0, 1>>
    ELSE IF ParseVersion(increment).kind = "version" THEN ParseVersion(increment).v.release
    ELSE <<>>

\* the position of the last nonzero segment, 0 when there is none
LastNonzero(rel) ==
    IF \E i \in 1..Len(rel) : rel[i] # 0
    THEN CHOOSE i \in 1..Len(rel) : rel[i] # 0 /\ \A k \in (i + 1)..Len(rel) : rel[k] = 0
    ELSE 0

InferCalled == call.op = "infer_next_version"

\* C3: for a last version that is no pre-release and an increment with a
\* nonzero segment, the last at position p, infer_next_version returns the
\* version whose segment i is last[i] + increment[i] up to p and zero after
\* p, both zero-padded; nothing is carried (1.0.9 + 0.0.1 = 1.0.10).
C3_InferAddsAndResets ==
    (/\ InferCalled
     /\ call.last_version # PyNone
     /\ ~HasMarker(call.last_version.v)
     /\ LastNonzero(IncrementRelease(call.increment)) > 0) =>
        LET last == call.last_version.v.release
            inc == IncrementRelease(call.increment)
            p == LastNonzero(inc)
        IN /\ out.kind = "version"
           /\ ~HasMarker(out.v)
           /\ \A i \in 1..(Max(Len(last), Len(inc)) + 1) :
                Seg(out.v.release, i) = IF i <= p THEN Seg(last, i) + Seg(inc, i) ELSE 0
           /\ (last = <<1, 0, 9>> /\ call.increment = Patch)
                => out.v.release = <<1, 0, 10>>
           /\ (last = <<1, 0, 9>> /\ call.increment = <<"0", ".", "0", ".", "1">>)
                => VersionStr(out.v) = <<"1", ".", "0", ".", "1", "0">>
           /\ (last = <<1, 1, 1>> /\ call.increment = Minor) => VersionStr(out.v) = <<"1", ".", "2">>
           /\ (last = <<1, 1, 1>> /\ call.increment = Major) => VersionStr(out.v) = <<"2">>

C3_Witness ==
    /\ InferCalled
    /\ call.last_version = PyVer(Plain(<<1, 0, 9>>))
    /\ call.increment = <<"0", ".", "0", ".", "1">>
    /\ out = PyVer(Plain(<<1, 0, 10>>))

\* C4: for a pre-release last version, infer_next_version returns last with
\* its pre-release and dev markers removed and its release segments as they
\* were, whatever the increment: nothing is added, nothing is zeroed.
C4_PrereleaseStripped ==
    (/\ InferCalled
     /\ call.last_version # PyNone
     /\ HasMarker(call.last_version.v)) =>
        LET last == call.last_version.v IN
        /\ out.kind = "str"
        /\ ParseVersion(out.s).kind = "version"
        /\ ParseVersion(out.s).v.release = last.release
        /\ ~HasMarker(ParseVersion(out.s).v)
        /\ (last.release = <<1, 0>> /\ last.pre = <<<<"a">>, 1>>) => out.s = <<"1", ".", "0">>

C4_Witness ==
    /\ InferCalled
    /\ call.last_version = PyVer([Plain(<<1, 0>>) EXCEPT !.pre = <<<<"a">>, 1>>])
    /\ call.increment = <<"0", ".", "0", ".", "1">>
    /\ out = PyStr(<<"1", ".", "0">>)

\* C6 as stated: with no last version, infer_next_version returns the
\* increment that was passed in, for any increment string.
C6_ReturnsIncrementPassed ==
    (InferCalled /\ call.last_version = PyNone) => out = PyStr(call.increment)

\* C6, amended: with no last version, infer_next_version returns the
\* increment after major, minor and patch are resolved to 1, 0.1 and 0.0.1;
\* any other increment string is returned as it was passed, unparsed.
C6_ReturnsResolvedIncrement ==
    (InferCalled /\ call.last_version = PyNone) =>
        /\ call.increment = Major => out = PyStr(<<"1">>)
        /\ call.increment = Minor => out = PyStr(<<"0", ".", "1">>)
        /\ call.increment = Patch => out = PyStr(<<"0", ".", "0", ".", "1">>)
        /\ call.increment \notin {Major, Minor, Patch} => out = PyStr(call.increment)

C6_Witness ==
    /\ InferCalled
    /\ call.last_version = PyNone
    /\ call.increment = Patch
    /\ out = PyStr(<<"0", ".", "0", ".", "1">>)

\* C7: a malformed increment (not major, minor or patch, and no version)
\* makes infer_next_version fail with a version-parse error whatever the
\* last version is, and every increment that parses yields a result.
C7_MalformedIncrementFails ==
    InferCalled =>
        IF IncrementRelease(call.increment) = <<>>
        THEN out = Raised("InvalidVersion")
        ELSE out.kind # "error"

----------------------------------------------------------------------------
(* SummableVersion *)

\* third operands for associativity
ThirdOperands ==
    {Plain(<<1>>), Plain(<<0, 1>>), Plain(<<1, 0, 1>>), Plain(<<0, 0, 0, 1>>),
     [Plain(<<1, 1>>) EXCEPT !.pre = <<<<"a">>, 1>>]}

\* C8: a + b == b + a and (a + b) + c == a + (b + c); the segments of a sum
\* are the sums of the operands' segments, zero-padded to the longer, and
\* the sum carries no pre-release or dev marker.
C8_AddCommutesAssociates ==
    call.op = "__add__" =>
        LET a == self.v
            b == call.other
        IN /\ out.v = __add__(b, a)
           /\ Len(out.v.release) = Max(Len(a.release), Len(b.release))
           /\ \A i \in 1..Len(out.v.release) :
                out.v.release[i] = Seg(a.release, i) + Seg(b.release, i)
           /\ ~HasMarker(out.v)
           /\ \A c \in ThirdOperands : __add__(out.v, c) = __add__(a, __add__(b, c))

C8_Witness ==
    /\ call.op = "__add__"
    /\ self.v = [Plain(<<1>>) EXCEPT !.pre = <<<<"a">>, 1>>]
    /\ call.other = Plain(<<0, 1, 1>>)
    /\ out = PyVer(Plain(<<1, 1, 1>>))

\* C9: reset_less_significant is idempotent: for a significant version with
\* a nonzero segment, a second application leaves the release segments and
\* the string of the version as the first left them.
C9_ResetIdempotent ==
    (/\ call.op = "reset_less_significant"
     /\ call.again
     /\ out.kind # "error") =>
        /\ self.v.release = before.v.release
        /\ VersionStr(self.v) = VersionStr(before.v)

----------------------------------------------------------------------------
(* Releases *)

\* C10: once the version get_next_version returned is tagged,
\* get_latest_version is that version, and it is strictly greater than the
\* latest version before, when there was one.
C10_ReleasesIncrease ==
    call.op = "release" =>
        \A latest \in get_latest_version(repoTags) :
            /\ latest # PyNone
            /\ VersionEq(latest.v, ParseVersion(PyStrOf(out)).v)
            /\ call.latest # PyNone => VersionLess(call.latest.v, latest.v)

====
